---- MODULE Spec2Model ----
(***************************************************************************)
(* A model of the to-do list manager of src/app.py: the Task record, the   *)
(* TaskManager store (load, save, add, display, filter, sort, delete,      *)
(* toggle) and the menu loop of main().                                    *)
(*                                                                         *)
(* Text on which the program works character by character (names,         *)
(* priorities, timestamps, typed input) is a sequence of one-character     *)
(* strings; attribute names and message tags are TLA+ strings.             *)
(* Values read from the persisted file have the JSON types of the file     *)
(* format (strings and booleans); their content is arbitrary.  The file    *)
(* system is reliable: open, read and write do not fail.                   *)
(***************************************************************************)
EXTENDS Integers, Sequences, FiniteSets, TLC

VARIABLES tasks, file, pc, displayed, msgs, last, before, fresh

vars == <<tasks, file, pc, displayed, msgs, last, before, fresh>>

(* Bounds of the model. *)
MaxTasks == 2

----------------------------------------------------------------------------
(* Characters and Python's str operations.                                 *)

Digits == <<"0", "1", "2", "3", "4", "5", "6", "7", "8", "9">>

(* The value of a decimal digit *)
DigitValue ==
    ("0" :> 0) @@ ("1" :> 1) @@ ("2" :> 2) @@ ("3" :> 3)
    @@ ("4" :> 4) @@ ("5" :> 5) @@ ("6" :> 6) @@ ("7" :> 7) @@ ("8" :> 8) @@ ("9" :> 9)

(* The lower-case form of the upper-case letters, and the converse *)
ToLower ==
    [A |-> "a", B |-> "b", C |-> "c", D |-> "d", E |-> "e", F |-> "f",
    G |-> "g", H |-> "h", I |-> "i", J |-> "j", K |-> "k", L |-> "l",
    M |-> "m", N |-> "n", O |-> "o", P |-> "p", Q |-> "q", R |-> "r",
    S |-> "s", T |-> "t", U |-> "u", V |-> "v", W |-> "w", X |-> "x",
    Y |-> "y", Z |-> "z"]

ToUpper ==
    [a |-> "A", b |-> "B", c |-> "C", d |-> "D", e |-> "E", f |-> "F",
    g |-> "G", h |-> "H", i |-> "I", j |-> "J", k |-> "K", l |-> "L",
    m |-> "M", n |-> "N", o |-> "O", p |-> "P", q |-> "Q", r |-> "R",
    s |-> "S", t |-> "T", u |-> "U", v |-> "V", w |-> "W", x |-> "X",
    y |-> "Y", z |-> "Z"]

(* ord(c): the code points of the characters the model uses *)
CodePoint ==
    (" " :> 32) @@ ("-" :> 45) @@ ("_" :> 95)
    @@ ("0" :> 48) @@ ("1" :> 49) @@ ("2" :> 50) @@ ("3" :> 51)
    @@ ("4" :> 52) @@ ("5" :> 53) @@ ("6" :> 54) @@ ("7" :> 55) @@ ("8" :> 56) @@ ("9" :> 57)
    @@ [A |-> 65, B |-> 66, C |-> 67, D |-> 68, E |-> 69, F |-> 70,
    G |-> 71, H |-> 72, I |-> 73, J |-> 74, K |-> 75, L |-> 76,
    M |-> 77, N |-> 78, O |-> 79, P |-> 80, Q |-> 81, R |-> 82,
    S |-> 83, T |-> 84, U |-> 85, V |-> 86, W |-> 87, X |-> 88,
    Y |-> 89, Z |-> 90, a |-> 97, b |-> 98, c |-> 99, d |-> 100,
    e |-> 101, f |-> 102, g |-> 103, h |-> 104, i |-> 105, j |-> 106,
    k |-> 107, l |-> 108, m |-> 109, n |-> 110, o |-> 111, p |-> 112,
    q |-> 113, r |-> 114, s |-> 115, t |-> 116, u |-> 117, v |-> 118,
    w |-> 119, x |-> 120, y |-> 121, z |-> 122]

Ord(c) == CodePoint[c]

LowerChar(c) == IF c \in DOMAIN ToLower THEN ToLower[c] ELSE c

UpperChar(c) == IF c \in DOMAIN ToUpper THEN ToUpper[c] ELSE c

(* str.lower() *)
Lower(s) == [i \in 1..Len(s) |-> LowerChar(s[i])]

(* str.capitalize(): first character upper-cased, the rest lower-cased *)
Capitalize(s) == [i \in 1..Len(s) |-> IF i = 1 THEN UpperChar(s[i]) ELSE LowerChar(s[i])]

(* str.strip(): leading and trailing whitespace removed *)
Strip(s) ==
    LET solid == {i \in 1..Len(s) : s[i] # " "}
        lo == CHOOSE i \in solid : \A j \in solid : i <= j
        hi == CHOOSE i \in solid : \A j \in solid : j <= i
    IN  IF solid = {} THEN <<>> ELSE SubSeq(s, lo, hi)

(* str < str: lexicographic by code point *)
StrLess(a, b) ==
    \E k \in 1..Len(b) :
        /\ k <= Len(a) + 1
        /\ \A j \in 1..(k - 1) : a[j] = b[j]
        /\ \/ k = Len(a) + 1
           \/ Ord(a[k]) < Ord(b[k])

(* int(text): surrounding whitespace and a sign are accepted; ok = FALSE    *)
(* stands for ValueError.                                                  *)
ParseInt(text) ==
    LET s == Strip(text)
        neg == Len(s) > 0 /\ s[1] = "-"
        ds == IF neg THEN Tail(s) ELSE s
        Val[k \in 0..Len(ds)] ==
            IF k = 0 THEN 0 ELSE 10 * Val[k - 1] + DigitValue[ds[k]]
    IN  IF Len(ds) = 0 \/ \E i \in 1..Len(ds) : ds[i] \notin DOMAIN DigitValue
        THEN [ok |-> FALSE, val |-> 0]
        ELSE [ok |-> TRUE, val |-> IF neg THEN 0 - Val[Len(ds)] ELSE Val[Len(ds)]]

(* datetime.now().strftime(...): fixed-width, zero-padded decimal fields,   *)
(* so that text order is time order.  The model keeps the seconds field.   *)
Strftime(now) == <<Digits[(now \div 10) + 1], Digits[(now % 10) + 1]>>

Low == <<"L", "o", "w">>
Medium == <<"M", "e", "d", "i", "u", "m">>
High == <<"H", "i", "g", "h">>
Priorities == {Low, Medium, High}

----------------------------------------------------------------------------
(* The Task record.                                                        *)

TaskKeys == {"name", "priority", "completed", "created_date"}

Methods == {"mark_complete", "toggle_complete", "to_dict"}

(* What attrgetter finds on a Task, among the keys the model uses *)
Attributes == TaskKeys \cup Methods

(* A keyword dictionary: a sequence of <<key, value>> pairs. *)
HasKey(d, k) == \E i \in DOMAIN d : d[i][1] = k

Get(d, k) == d[CHOOSE i \in DOMAIN d : d[i][1] = k][2]

Keys(d) == {d[i][1] : i \in DOMAIN d}

(* A constructor that stamps every task with the current time *)
TaskInitStampsNow(d, now) ==
    [name |-> Get(d, "name"),
     priority |-> IF HasKey(d, "priority") THEN Get(d, "priority") ELSE Medium,
     completed |-> IF HasKey(d, "completed") THEN Get(d, "completed") ELSE FALSE,
     created_date |-> Strftime(now)]

(* Task.__init__ called with the keyword arguments d at time now *)
TaskInit(d, now) ==
    [name |-> Get(d, "name"),
     priority |-> IF HasKey(d, "priority") THEN Get(d, "priority") ELSE Medium,
     completed |-> IF HasKey(d, "completed") THEN Get(d, "completed") ELSE FALSE,
     created_date |->
        IF HasKey(d, "created_date") /\ Get(d, "created_date") # <<>>
        THEN Get(d, "created_date")
        ELSE Strftime(now)]

(* Task called with the keywords d raises TypeError unless d names `name`  *)
(* and nothing but parameters of __init__                                 *)
Constructible(d) == "name" \in Keys(d) /\ Keys(d) \subseteq TaskKeys

mark_complete(t) == [t EXCEPT !.completed = TRUE]

(* A toggle that only ever sets the flag *)
toggle_complete_sets(t) == [t EXCEPT !.completed = TRUE]

toggle_complete(t) == [t EXCEPT !.completed = ~t.completed]

to_dict(t) ==
    << <<"name", t.name>>, <<"priority", t.priority>>,
       <<"completed", t.completed>>, <<"created_date", t.created_date>> >>

----------------------------------------------------------------------------
(* JSON documents and the persisted file.                                  *)

JStr(s) == [t |-> "str", v |-> s]
JBool(b) == [t |-> "bool", v |-> b]
JObj(pairs) == [t |-> "obj", v |-> pairs]
JArr(elems) == [t |-> "arr", v |-> elems]
NotJson == [t |-> "invalid", v |-> <<>>]

Absent == [kind |-> "absent", text |-> NotJson]
EmptyFile == [kind |-> "empty", text |-> NotJson]
Text(doc) == [kind |-> "text", text |-> doc]

(* json.dump of a list of to_dict() dictionaries *)
JsonValue(k, x) == IF k = "completed" THEN JBool(x) ELSE JStr(x)

JsonDump(dicts) ==
    JArr([i \in 1..Len(dicts) |->
            JObj([j \in 1..Len(dicts[i]) |->
                    <<dicts[i][j][1], JsonValue(dicts[i][j][1], dicts[i][j][2])>>])])

(* json.load of an object: the keyword dictionary *)
JsonDict(obj) == [j \in 1..Len(obj.v) |-> <<obj.v[j][1], obj.v[j][2].v>>]

----------------------------------------------------------------------------
(* The TaskManager store.  Every operation yields the collection it leaves *)
(* and the messages it prints.                                             *)

RemoveAt(ts, p) == SubSeq(ts, 1, p - 1) \o SubSeq(ts, p + 1, Len(ts))

(* A load that appends task by task, and so keeps the records it built     *)
(* before the one that failed                                              *)
LoadTasksPartial(ts0, f, now) ==
    IF f.kind # "text"
    THEN [tasks |-> ts0, msgs |-> <<>>]
    ELSE LET doc == f.text
             elems == doc.v
             Ok(i) == elems[i].t = "obj" /\ Constructible(JsonDict(elems[i]))
             n == IF doc.t # "arr" THEN 0
                  ELSE Cardinality({i \in 1..Len(elems) : \A j \in 1..i : Ok(j)})
         IN  IF doc.t = "arr" /\ n = Len(elems)
             THEN [tasks |-> [i \in 1..n |-> TaskInit(JsonDict(elems[i]), now)],
                   msgs |-> <<"loaded">>]
             ELSE [tasks |-> ts0 \o [i \in 1..n |-> TaskInit(JsonDict(elems[i]), now)],
                   msgs |-> <<"load_error">>]

(* load_tasks on a store whose collection is ts0 (the empty list, in       *)
(* __init__).  The list comprehension is assigned only when every element  *)
(* was constructed; any exception leaves the collection as it was.  A      *)
(* JSON object is iterated by its keys, which are no keyword dictionaries: *)
(* only the empty object loads, as no task.                                *)
LoadTasks(ts0, f, now) ==
    IF f.kind # "text"
    THEN [tasks |-> ts0, msgs |-> <<>>]
    ELSE LET doc == f.text
             elems == doc.v
             good == /\ doc.t = "arr"
                     /\ \A i \in 1..Len(elems) :
                            /\ elems[i].t = "obj"
                            /\ Constructible(JsonDict(elems[i]))
         IN  IF good
             THEN [tasks |-> [i \in 1..Len(elems) |-> TaskInit(JsonDict(elems[i]), now)],
                   msgs |-> <<"loaded">>]
             ELSE IF doc.t = "obj" /\ elems = <<>>
             THEN [tasks |-> <<>>, msgs |-> <<"loaded">>]
             ELSE [tasks |-> ts0, msgs |-> <<"load_error">>]

(* A save that reports success without writing *)
SaveTasksWritesNothing(ts, f) == f

(* save_tasks: the file the store writes *)
SaveTasks(ts, f) == Text(JsonDump([i \in 1..Len(ts) |-> to_dict(ts[i])]))

(* add_task at time now *)
AddTask(ts, name, priority, now) ==
    [tasks |-> Append(ts, TaskInit(<< <<"name", name>>, <<"priority", priority>> >>, now)),
     msgs |-> <<"added">>]

(* display_tasks(task_list): the list shown *)
DisplayTasks(list) ==
    IF list = <<>>
    THEN [shown |-> <<>>, msgs |-> <<"empty">>]
    ELSE [shown |-> list, msgs |-> <<"listing">>]

S_all == <<"a", "l", "l">>
S_pending == <<"p", "e", "n", "d", "i", "n", "g">>
S_done == <<"d", "o", "n", "e">>

(* [t for t in ts if ...]: the tasks at the positions in keep, in order *)
SelectTasks(ts, keep) ==
    LET Nth(k) == CHOOSE i \in keep : Cardinality({j \in keep : j <= i}) = k
    IN  [k \in 1..Cardinality(keep) |-> ts[Nth(k)]]

(* A filter whose `pending` branch selects the completed tasks *)
FilterTasksPendingAsDone(ts, criterion) ==
    LET c == Lower(criterion)
        ByPriority == {i \in 1..Len(ts) : Lower(ts[i].priority) = c}
        Done == {i \in 1..Len(ts) : ts[i].completed}
    IN  IF c = S_all THEN [list |-> ts, msgs |-> <<>>]
        ELSE IF c \in {Lower(Low), Lower(Medium), Lower(High)}
             THEN [list |-> SelectTasks(ts, ByPriority), msgs |-> <<"filter_priority">>]
        ELSE IF c = S_pending
             THEN [list |-> SelectTasks(ts, Done), msgs |-> <<"filter_pending">>]
        ELSE IF c = S_done
             THEN [list |-> SelectTasks(ts, Done), msgs |-> <<"filter_done">>]
        ELSE [list |-> <<>>, msgs |-> <<"invalid_filter">>]

(* filter_tasks(criterion) *)
FilterTasks(ts, criterion) ==
    LET c == Lower(criterion)
        ByPriority == {i \in 1..Len(ts) : Lower(ts[i].priority) = c}
        Pending == {i \in 1..Len(ts) : ~ts[i].completed}
        Done == {i \in 1..Len(ts) : ts[i].completed}
    IN  IF c = S_all THEN [list |-> ts, msgs |-> <<>>]
        ELSE IF c \in {Lower(Low), Lower(Medium), Lower(High)}
             THEN [list |-> SelectTasks(ts, ByPriority), msgs |-> <<"filter_priority">>]
        ELSE IF c = S_pending
             THEN [list |-> SelectTasks(ts, Pending), msgs |-> <<"filter_pending">>]
        ELSE IF c = S_done
             THEN [list |-> SelectTasks(ts, Done), msgs |-> <<"filter_done">>]
        ELSE [list |-> <<>>, msgs |-> <<"invalid_filter">>]

(* The order of two attribute values: str < str, bool < bool *)
KeyLess(key, t1, t2) ==
    CASE key = "name" -> StrLess(t1.name, t2.name)
      [] key = "priority" -> StrLess(t1.priority, t2.priority)
      [] key = "created_date" -> StrLess(t1.created_date, t2.created_date)
      [] key = "completed" -> ~t1.completed /\ t2.completed

Reverse(ts) == [i \in 1..Len(ts) |-> ts[Len(ts) + 1 - i]]

(* The stable ascending sort of the first k elements: each element goes    *)
(* in before the first one that is greater (insertion sort, which is what  *)
(* list.sort runs on short lists).                                         *)
RECURSIVE SortPrefix(_, _, _)
SortPrefix(ts, k, key) ==
    IF k = 0 THEN <<>>
    ELSE LET s == SortPrefix(ts, k - 1, key)
             greater == {i \in 1..Len(s) : KeyLess(key, ts[k], s[i])}
             p == IF greater = {} THEN Len(s) + 1
                  ELSE CHOOSE i \in greater : \A j \in greater : i <= j
         IN  SubSeq(s, 1, p - 1) \o <<ts[k]>> \o SubSeq(s, p, Len(s))

(* list.sort(key=attrgetter(key), reverse=reverse): with reverse, the list *)
(* is reversed, sorted and reversed again, which keeps the sort stable.    *)
ListSort(ts, key, reverse) ==
    IF reverse
    THEN Reverse(SortPrefix(Reverse(ts), Len(ts), key))
    ELSE SortPrefix(ts, Len(ts), key)

(* sort_tasks(key, reverse).  attrgetter runs once per element, so an      *)
(* empty list never looks the key up; a key that is no attribute raises    *)
(* AttributeError on the first element, before the list is changed; bound  *)
(* methods are found but not ordered, so comparing two of them raises      *)
(* TypeError, which sort_tasks does not catch.                             *)
SortTasks(ts, key, reverse) ==
    IF ts = <<>>
    THEN [tasks |-> ts, msgs |-> <<"sorted">>, raised |-> "none"]
    ELSE IF key \in TaskKeys
    THEN [tasks |-> ListSort(ts, key, reverse), msgs |-> <<"sorted">>, raised |-> "none"]
    ELSE IF key \in Methods
    THEN IF Len(ts) = 1
         THEN [tasks |-> ts, msgs |-> <<"sorted">>, raised |-> "none"]
         ELSE [tasks |-> ts, msgs |-> <<>>, raised |-> "TypeError"]
    ELSE [tasks |-> ListSort(ts, "created_date", FALSE),
          msgs |-> <<"invalid_key">>, raised |-> "none"]

(* A delete that checks only the upper end of the range; list.pop counts   *)
(* a negative index from the end                                           *)
DeleteTaskNoLowerBound(ts, index) ==
    IF index < Len(ts) /\ 0 <= index + Len(ts)
    THEN [tasks |-> RemoveAt(ts, IF index < 0 THEN index + Len(ts) + 1 ELSE index + 1),
          msgs |-> <<"deleted">>]
    ELSE [tasks |-> ts, msgs |-> <<"out_of_range">>]

(* delete_task(index) *)
DeleteTask(ts, index) ==
    IF 0 <= index /\ index < Len(ts)
    THEN [tasks |-> RemoveAt(ts, index + 1), msgs |-> <<"deleted">>]
    ELSE [tasks |-> ts, msgs |-> <<"out_of_range">>]

(* toggle_task(index) *)
ToggleTask(ts, index) ==
    IF 0 <= index /\ index < Len(ts)
    THEN [tasks |-> [ts EXCEPT ![index + 1] = toggle_complete(ts[index + 1])],
          msgs |-> <<"status">>]
    ELSE [tasks |-> ts, msgs |-> <<"out_of_range">>]

(* A get_task_index that asks for the number without listing the tasks *)
IndexListingOmitted(ts, shownBefore) == [shown |-> shownBefore, msgs |-> <<>>]

(* The list get_task_index shows before it asks for the number *)
IndexListing(ts, shownBefore) == DisplayTasks(ts)

(* get_task_index: the 0-based index, or -1 *)
GetTaskIndex(ts, shownBefore, text) ==
    LET d == IndexListing(ts, shownBefore)
        n == ParseInt(text)
    IN  IF ts = <<>>
        THEN [index |-> -1, shown |-> d.shown, msgs |-> d.msgs]
        ELSE IF ~n.ok
        THEN [index |-> -1, shown |-> d.shown, msgs |-> d.msgs \o <<"not_a_number">>]
        ELSE IF 0 <= n.val - 1 /\ n.val - 1 < Len(ts)
        THEN [index |-> n.val - 1, shown |-> d.shown, msgs |-> d.msgs]
        ELSE [index |-> -1, shown |-> d.shown, msgs |-> d.msgs \o <<"out_of_range">>]

----------------------------------------------------------------------------
(* What the user may type.                                                 *)

NameInputs == {<<"A">>}

PriorityInputs == {<<"l", "o", "w">>, <<" ", "H", "I", "G", "H", " ">>,
                   <<"u", "r", "g", "e", "n", "t">>}

SortKeyInputs == {"", "priority", "to_dict", "bogus"}

ReverseInputs == {<<"Y">>, <<"n">>}

FilterInputs == {<<" ", "L", "O", "W">>, <<"p", "e", "n", "d", "i", "n", "g">>,
                 <<"D", "O", "N", "E">>, <<"x">>}

NumberInputs == {<<Digits[n + 1]>> : n \in 0..MaxTasks} \cup {<<"x">>}

(* What the clock may read when a task is created *)
Times == {0}

(* What a caller of the store may pass *)
StoreNames == {<<"A">>, <<"B">>}

StorePriorities == {Low, High}

StoreTimes == {0, 1}

StoreSortKeys == {"name", "priority", "created_date", "completed", "to_dict", "bogus"}

StoreCriteria == {S_all, <<"L", "o", "w">>, <<"H", "I", "G", "H">>, S_pending,
                  <<"D", "o", "n", "e">>, <<"x">>}

IndexArgs == (0 - 2)..(MaxTasks + 1)

(* The last operation and its inputs: the text typed (or the criterion     *)
(* passed), the sort key and direction, the index passed to the store,     *)
(* and the task the operation acted on, if any.                            *)
Op(op, text, key, rev, index, target) ==
    [op |-> op, text |-> text, key |-> key, rev |-> rev, index |-> index, target |-> target]

----------------------------------------------------------------------------
(* main(): the store is constructed, then the menu loop runs until choice  *)
(* 7 or an exception nobody catches.                                       *)

StartFiles ==
    LET rec(n, p, c, d) == JObj(<< <<"name", JStr(n)>>, <<"priority", JStr(p)>>,
                                   <<"completed", JBool(c)>>, <<"created_date", JStr(d)>> >>)
        urgent == rec(<<"A">>, <<"U", "r", "g", "e", "n", "t">>, TRUE, <<"0", "1">>)
    IN  { Absent, EmptyFile, Text(NotJson),
          Text(JArr(<<urgent>>)),
          Text(JArr(<<JObj(<< <<"name", JStr(<<"A">>)>> >>)>>)),
          Text(JArr(<<urgent, JStr(<<"B">>)>>)) }

Init ==
    /\ file \in StartFiles
    /\ LET l == LoadTasks(<<>>, file, 0)
       IN  tasks = l.tasks /\ msgs = l.msgs
    /\ pc = "menu"
    /\ displayed = <<>>
    /\ last = Op("start", <<>>, "", FALSE, -1, <<>>)
    /\ before = <<>>
    /\ fresh = (file.kind # "text")

(* choice 1 *)
ViewChoice ==
    /\ pc = "menu"
    /\ LET d == DisplayTasks(tasks)
       IN  displayed' = d.shown /\ msgs' = d.msgs
    /\ last' = Op("view", <<>>, "", FALSE, -1, <<>>)
    /\ UNCHANGED <<tasks, file, pc, before, fresh>>

(* A menu that passes the entered priority on unchecked *)
MenuPriorityUnchecked(text) == Capitalize(Strip(text))

(* The priority the menu passes on to add_task *)
MenuPriority(text) ==
    LET p == Capitalize(Strip(text))
    IN  IF p \in Priorities THEN p ELSE Medium

(* choice 2 *)
AddChoice(name, text, now) ==
    /\ pc = "menu"
    /\ Len(tasks) < MaxTasks
    /\ LET r == AddTask(tasks, name, MenuPriority(text), now)
       IN  tasks' = r.tasks /\ msgs' = r.msgs
    /\ last' = Op("add", text, "", FALSE, -1, <<>>)
    /\ UNCHANGED <<file, pc, displayed, before, fresh>>

(* choice 3 *)
SortChoice(keyText, revText) ==
    /\ pc = "menu"
    /\ LET key == IF keyText = "" THEN "created_date" ELSE keyText
           rev == Lower(revText) = <<"y">>
           r == SortTasks(tasks, key, rev)
           d == DisplayTasks(r.tasks)
       IN  /\ tasks' = r.tasks
           /\ last' = Op("sort", revText, key, rev, -1, <<>>)
           /\ IF r.raised = "none"
              THEN /\ pc' = pc
                   /\ displayed' = d.shown
                   /\ msgs' = r.msgs \o d.msgs
              ELSE /\ pc' = "crashed"
                   /\ displayed' = displayed
                   /\ msgs' = <<r.raised>>
    /\ UNCHANGED <<file, before, fresh>>

(* choice 4 *)
FilterChoice(text) ==
    /\ pc = "menu"
    /\ LET f == FilterTasks(tasks, Capitalize(Strip(text)))
           d == DisplayTasks(f.list)
       IN  displayed' = d.shown /\ msgs' = f.msgs \o d.msgs
    /\ last' = Op("filter", text, "", FALSE, -1, <<>>)
    /\ UNCHANGED <<tasks, file, pc, before, fresh>>

(* choice 5 *)
ToggleChoice(text) ==
    /\ pc = "menu"
    /\ LET g == GetTaskIndex(tasks, displayed, text)
           r == ToggleTask(tasks, g.index)
       IN  /\ displayed' = g.shown
           /\ IF g.index # -1
              THEN /\ tasks' = r.tasks
                   /\ msgs' = g.msgs \o r.msgs
                   /\ last' = Op("toggle", text, "", FALSE, g.index, <<tasks[g.index + 1]>>)
              ELSE /\ tasks' = tasks
                   /\ msgs' = g.msgs
                   /\ last' = Op("toggle", text, "", FALSE, -1, <<>>)
    /\ UNCHANGED <<file, pc, before, fresh>>

(* choice 6 *)
DeleteChoice(text) ==
    /\ pc = "menu"
    /\ LET g == GetTaskIndex(tasks, displayed, text)
           r == DeleteTask(tasks, g.index)
       IN  /\ displayed' = g.shown
           /\ IF g.index # -1
              THEN /\ tasks' = r.tasks
                   /\ msgs' = g.msgs \o r.msgs
                   /\ last' = Op("delete", text, "", FALSE, g.index, <<tasks[g.index + 1]>>)
              ELSE /\ tasks' = tasks
                   /\ msgs' = g.msgs
                   /\ last' = Op("delete", text, "", FALSE, -1, <<>>)
    /\ UNCHANGED <<file, pc, before, fresh>>

(* choice 7 *)
ExitChoice ==
    /\ pc = "menu"
    /\ file' = SaveTasks(tasks, file)
    /\ msgs' = <<"saved", "goodbye">>
    /\ pc' = "exited"
    /\ last' = Op("exit", <<>>, "", FALSE, -1, <<>>)
    /\ UNCHANGED <<tasks, displayed, before, fresh>>

(* any other choice *)
InvalidChoice ==
    /\ pc = "menu"
    /\ msgs' = <<"invalid_choice">>
    /\ last' = Op("invalid", <<>>, "", FALSE, -1, <<>>)
    /\ UNCHANGED <<tasks, file, pc, displayed, before, fresh>>

Next ==
    \/ ViewChoice
    \/ \E name \in NameInputs, text \in PriorityInputs, now \in Times :
          AddChoice(name, text, now)
    \/ \E keyText \in SortKeyInputs, revText \in ReverseInputs : SortChoice(keyText, revText)
    \/ \E text \in FilterInputs : FilterChoice(text)
    \/ \E text \in NumberInputs : ToggleChoice(text)
    \/ \E text \in NumberInputs : DeleteChoice(text)
    \/ ExitChoice
    \/ InvalidChoice

Spec == Init /\ [][Next]_vars

----------------------------------------------------------------------------
(* The store driven directly: any sequence of calls on one TaskManager     *)
(* (`before` is its collection before the last call), then save_tasks,     *)
(* then a fresh TaskManager that loads what was saved.                     *)

InitStore ==
    /\ tasks = <<>>
    /\ file = Absent
    /\ pc = "api"
    /\ displayed = <<>>
    /\ msgs = <<>>
    /\ last = Op("new", <<>>, "", FALSE, -1, <<>>)
    /\ before = <<>>
    /\ fresh = TRUE

CallAdd(name, priority, now) ==
    /\ pc = "api"
    /\ Len(tasks) < MaxTasks
    /\ LET r == AddTask(tasks, name, priority, now)
       IN  tasks' = r.tasks /\ msgs' = r.msgs
    /\ before' = tasks
    /\ last' = Op("add", priority, "", FALSE, -1, <<>>)
    /\ UNCHANGED <<file, pc, displayed, fresh>>

CallDelete(index) ==
    /\ pc = "api"
    /\ LET r == DeleteTask(tasks, index)
       IN  tasks' = r.tasks /\ msgs' = r.msgs
    /\ before' = tasks
    /\ last' = Op("delete", <<>>, "", FALSE, index, <<>>)
    /\ UNCHANGED <<file, pc, displayed, fresh>>

CallToggle(index) ==
    /\ pc = "api"
    /\ LET r == ToggleTask(tasks, index)
       IN  tasks' = r.tasks /\ msgs' = r.msgs
    /\ before' = tasks
    /\ last' = Op("toggle", <<>>, "", FALSE, index, <<>>)
    /\ UNCHANGED <<file, pc, displayed, fresh>>

(* An exception sort_tasks lets through reaches the caller *)
CallSort(key, reverse) ==
    /\ pc = "api"
    /\ LET r == SortTasks(tasks, key, reverse)
       IN  /\ tasks' = r.tasks
           /\ msgs' = IF r.raised = "none" THEN r.msgs ELSE <<r.raised>>
    /\ before' = tasks
    /\ last' = Op("sort", <<>>, key, reverse, -1, <<>>)
    /\ UNCHANGED <<file, pc, displayed, fresh>>

(* filter_tasks(criterion): the store is left as it is; the caller gets    *)
(* FilterTasks(tasks, criterion).list                                      *)
CallFilter(criterion) ==
    /\ pc = "api"
    /\ msgs' = FilterTasks(tasks, criterion).msgs
    /\ before' = tasks
    /\ last' = Op("filter", criterion, "", FALSE, -1, <<>>)
    /\ UNCHANGED <<tasks, file, pc, displayed, fresh>>

CallSave ==
    /\ pc = "api"
    /\ file' = SaveTasks(tasks, file)
    /\ msgs' = <<"saved">>
    /\ pc' = "saved"
    /\ before' = tasks
    /\ last' = Op("save", <<>>, "", FALSE, -1, <<>>)
    /\ UNCHANGED <<tasks, displayed, fresh>>

(* TaskManager(): a new store, which loads the file at time now *)
CallLoad(now) ==
    /\ pc = "saved"
    /\ LET l == LoadTasks(<<>>, file, now)
       IN  tasks' = l.tasks /\ msgs' = l.msgs
    /\ pc' = "reloaded"
    /\ before' = tasks
    /\ last' = Op("load", <<>>, "", FALSE, -1, <<>>)
    /\ UNCHANGED <<file, displayed, fresh>>

NextStore ==
    \/ \E name \in StoreNames, priority \in StorePriorities, now \in StoreTimes :
          CallAdd(name, priority, now)
    \/ \E index \in IndexArgs : CallDelete(index)
    \/ \E index \in IndexArgs : CallToggle(index)
    \/ \E key \in StoreSortKeys, reverse \in BOOLEAN : CallSort(key, reverse)
    \/ \E criterion \in StoreCriteria : CallFilter(criterion)
    \/ CallSave
    \/ \E now \in StoreTimes : CallLoad(now)

SpecStore == InitStore /\ [][NextStore]_vars

----------------------------------------------------------------------------
(* Properties.                                                             *)

Range(seq) == {seq[i] : i \in DOMAIN seq}

Count(seq, x) == Cardinality({i \in DOMAIN seq : seq[i] = x})

InRange(index, ts) == 0 <= index /\ index < Len(ts)

ValidFields(t) ==
    /\ t.name # <<>>
    /\ t.priority \in Priorities
    /\ t.completed \in BOOLEAN
    /\ t.created_date # <<>>

(* The file is a JSON array holding, in order, exactly the fields of ts *)
FileHolds(f, ts) ==
    /\ f.kind = "text"
    /\ f.text.t = "arr"
    /\ Len(f.text.v) = Len(ts)
    /\ \A i \in 1..Len(ts) :
          LET e == f.text.v[i]
              d == JsonDict(e)
          IN  /\ e.t = "obj"
              /\ Keys(d) = TaskKeys
              /\ Len(d) = 4
              /\ Get(d, "name") = ts[i].name
              /\ Get(d, "priority") = ts[i].priority
              /\ Get(d, "completed") = ts[i].completed
              /\ Get(d, "created_date") = ts[i].created_date

(* C1: when a non-empty collection whose tasks have valid fields is saved  *)
(* and a fresh store then loads the file, the loaded collection has the    *)
(* same length and order and every task equals the original field by       *)
(* field.                                                                  *)
C1_SaveLoadRoundTrip ==
    (pc = "reloaded" /\ before # <<>> /\ \A i \in 1..Len(before) : ValidFields(before[i]))
        => /\ Len(tasks) = Len(before)
           /\ \A i \in 1..Len(before) :
                 /\ tasks[i].name = before[i].name
                 /\ tasks[i].priority = before[i].priority
                 /\ tasks[i].completed = before[i].completed
                 /\ tasks[i].created_date = before[i].created_date

C1_Witness ==
    /\ pc = "reloaded"
    /\ Len(before) = 2
    /\ \A i \in 1..2 : ValidFields(before[i])
    /\ before[1].completed
    /\ ~before[2].completed
    /\ before[1].created_date # before[2].created_date
    /\ tasks = before

(* C2: a step of the menu loop other than choice 7 leaves the file as it   *)
(* is; choice 7 overwrites it with the collection in memory and ends the   *)
(* loop; and nothing runs once the loop has ended.                         *)
C2_FileWrittenOnlyOnExit ==
    [][/\ pc = "menu"
       /\ last'.op # "exit" => file' = file /\ pc' # "exited"
       /\ last'.op = "exit" => FileHolds(file', tasks) /\ tasks' = tasks /\ pc' = "exited"]_vars

C2_Witness ==
    /\ pc = "exited"
    /\ last.op = "exit"
    /\ Len(tasks) = 2
    /\ FileHolds(file, tasks)
    /\ fresh

(* C3: the menu loop never ends in an exception nobody catches, whatever   *)
(* sort key is entered.                                                    *)
C3_NoUnhandledFault == pc # "crashed"

(* C4: when choice 5 or 6 acts on a task, that task is the one at the      *)
(* number the user entered in the list displayed last before the entry.    *)
C4_ActsOnDisplayedTask ==
    (last.op \in {"toggle", "delete"} /\ last.target # <<>>)
        => LET n == ParseInt(last.text)
           IN  /\ n.ok
               /\ n.val \in 1..Len(displayed)
               /\ displayed[n.val] = last.target[1]

C4_Witness ==
    /\ pc = "menu"
    /\ last.op = "delete"
    /\ last.target # <<>>
    /\ ParseInt(last.text).val = 2
    /\ Len(displayed) = 2
    /\ displayed[1] # displayed[2]
    /\ tasks = <<displayed[1]>>

(* C5: delete_task(i) removes one task when 0 <= i < n; for any other i,   *)
(* negative ones included, it reports out-of-range and leaves the          *)
(* collection as it was.                                                   *)
C5_DeleteByIndex ==
    (pc = "api" /\ last.op = "delete")
        => IF InRange(last.index, before)
           THEN Len(tasks) = Len(before) - 1
           ELSE tasks = before /\ msgs = <<"out_of_range">>

C5_Witness ==
    /\ pc = "api"
    /\ last.op = "delete"
    /\ last.index < 0
    /\ Len(before) = 2
    /\ tasks = before
    /\ msgs = <<"out_of_range">>

(* C6: when the file is there, is not empty and does not parse into task   *)
(* records (it is no JSON, or it is an array with an element that is no    *)
(* task record: no object, an object without a name, or one with a key     *)
(* that is no field of Task), the store starts empty, with no record of    *)
(* the file in it, the failure is reported and the menu loop is entered.   *)
C6_LoadFailureLeavesEmpty ==
    LET doc == file.text
        IsTaskRecord(e) ==
            /\ e.t = "obj"
            /\ "name" \in Keys(JsonDict(e))
            /\ Keys(JsonDict(e)) \subseteq TaskKeys
        unparsable ==
            \/ doc.t = "invalid"
            \/ doc.t = "arr" /\ \E i \in 1..Len(doc.v) : ~IsTaskRecord(doc.v[i])
    IN  (last.op = "start" /\ file.kind = "text" /\ unparsable)
            => tasks = <<>> /\ msgs = <<"load_error">> /\ pc = "menu"

C6_Witness ==
    /\ last.op = "start"
    /\ file.kind = "text"
    /\ file.text.t = "arr"
    /\ Len(file.text.v) = 2
    /\ file.text.v[1].t = "obj"
    /\ file.text.v[2].t # "obj"
    /\ tasks = <<>>
    /\ msgs = <<"load_error">>
    /\ pc = "menu"

SortedByCreatedDate(ts) ==
    \A i \in 1..Len(ts), j \in 1..Len(ts) :
        i < j => ~StrLess(ts[j].created_date, ts[i].created_date)

(* C7: sort_tasks with a key that is no attribute of Task reports the      *)
(* invalid key and leaves the collection in ascending created_date order,  *)
(* for every collection, the empty one included.                           *)
C7_InvalidKeyFallback ==
    (pc = "api" /\ last.op = "sort" /\ last.key \notin Attributes)
        => "invalid_key" \in Range(msgs) /\ SortedByCreatedDate(tasks)

(* C8: filter_tasks('done') and filter_tasks('pending') split the          *)
(* collection: every task is in exactly one of the two results, and        *)
(* neither holds a task that is not in the collection.                     *)
C8_DonePendingPartition ==
    LET done == FilterTasks(tasks, S_done).list
        pending == FilterTasks(tasks, S_pending).list
    IN  /\ Len(done) + Len(pending) = Len(tasks)
        /\ Range(done) \cap Range(pending) = {}
        /\ Range(done) \cup Range(pending) = Range(tasks)
        /\ \A t \in Range(tasks) : Count(done, t) + Count(pending, t) = Count(tasks, t)

C8_Witness ==
    /\ pc = "api"
    /\ last.op = "filter"
    /\ Lower(last.text) = S_done
    /\ Len(tasks) = 2
    /\ Len(FilterTasks(tasks, S_done).list) = 1
    /\ Len(FilterTasks(tasks, S_pending).list) = 1

(* C9: in a session started from an absent or empty file every stored task *)
(* has priority Low, Medium or High; an add stores the entered priority,   *)
(* trimmed and capitalised, when that is one of the three, and Medium      *)
(* otherwise.                                                              *)
C9_PriorityFromMenu ==
    /\ fresh => \A i \in 1..Len(tasks) : tasks[i].priority \in Priorities
    /\ last.op = "add" =>
          LET entered == Capitalize(Strip(last.text))
              stored == tasks[Len(tasks)].priority
          IN  IF entered \in Priorities THEN stored = entered ELSE stored = Medium

C9_Witness ==
    /\ fresh
    /\ last.op = "add"
    /\ Capitalize(Strip(last.text)) \notin Priorities
    /\ Len(tasks) = 2
    /\ tasks[1].priority = High
    /\ tasks[2].priority = Medium

(* C10: toggle_task(i) with i in range flips the completed flag of task i  *)
(* and nothing else, and a second toggle_task(i) restores the collection;  *)
(* out of range it reports so and changes nothing.                         *)
C10_ToggleInvolution ==
    (pc = "api" /\ last.op = "toggle")
        => IF InRange(last.index, before)
           THEN /\ Len(tasks) = Len(before)
                /\ \A i \in 1..Len(before) :
                      i # last.index + 1 => tasks[i] = before[i]
                /\ tasks[last.index + 1].completed = ~before[last.index + 1].completed
                /\ ToggleTask(tasks, last.index).tasks = before
           ELSE tasks = before /\ msgs = <<"out_of_range">>

C10_Witness ==
    /\ pc = "api"
    /\ last.op = "toggle"
    /\ InRange(last.index, before)
    /\ before[last.index + 1].completed
    /\ ~tasks[last.index + 1].completed
    /\ Len(tasks) = 2

====
